---- MODULE Spec2Model ----
(***************************************************************************)
(* The entity search/filter engine of OpenAtlas                           *)
(* (openatlas/api/v03/resources/search.py).                                *)
(*                                                                         *)
(* Python values are modelled as records of one shape, so that values of   *)
(* different Python types can be compared without a type error of the      *)
(* model checker:                                                          *)
(*   a number  (int, float, date ordinal): [t |-> "num", n |-> tenths]     *)
(*   a string                            : [t |-> "str", s |-> characters] *)
(*   a (type id, number) tuple           : [t |-> "pair", n |-> id, m |-> tenths] *)
(* Numbers are kept in tenths so that a float such as 42.5 is exact.       *)
(* The outcome of a Python expression is one of the strings "True",        *)
(* "False" or the name of the exception it raises.                         *)
(***************************************************************************)
EXTENDS Integers, Sequences, FiniteSets, TLC

VARIABLES
    args,       \* the arguments of the search_entity call under study
    outcome,    \* "pending" before the call, then what the call produced
    element,    \* the parser element handed to get_search_parameter
    resolved,   \* what get_search_parameter produced for it
    entities,   \* search: the entity list
    criteria,   \* search: the list of parser elements (argument parser)
    resolving,  \* search: the criteria resolved so far (line 17, parameter)
    checked,    \* search: how many entities line 18 has gone through
    result,     \* search: the entities kept so far
    pc,         \* search: "running", "returned" or "raised"
    raised,     \* search: the exception that ended the call, if any
    expanding,  \* get_sub_ids: the type hierarchy g.types and the id given
    expanded    \* get_sub_ids: what the call produced

evalVars == <<args, outcome>>

resolveVars == <<element, resolved>>

searchVars == <<entities, criteria, resolving, checked, result, pc, raised>>

expandVars == <<expanding, expanded>>

vars == <<args, outcome, element, resolved, entities, criteria, resolving,
          checked, result, pc, raised, expanding, expanded>>

---------------------------------------------------------------------------
(* Python values *)

Num(n) == [t |-> "num", n |-> n, s |-> <<>>, m |-> 0]

IntV(k) == Num(k * 10)

Str(chars) == [t |-> "str", n |-> 0, s |-> chars, m |-> 0]

\* a raw valueTypeID value: the tuple (link type id, numeric value)
Pair(type_id, number) == [t |-> "pair", n |-> type_id, s |-> <<>>, m |-> number]

IsNum(v) == v.t = "num"

IsStr(v) == v.t = "str"

Bool(b) == IF b THEN "True" ELSE "False"

\* entity_values is either a list of values or a single scalar (a parsed
\* date, or the float of a link description)
List(items) == [kind |-> "list", items |-> items]

Scalar(v) == [kind |-> "scalar", items |-> <<v>>]

\* Python truthiness of entity_values: an empty list and the number 0 are falsy
Truthy(ev) ==
    IF ev.kind = "list" THEN ev.items # <<>>
    ELSE IF IsNum(ev.items[1]) THEN ev.items[1].n # 0
    ELSE ev.items[1].s # <<>>

\* a in b for two character sequences (the empty string is in every string)
IsSubstring(a, b) ==
    \E i \in 0..(Len(b) - Len(a)) : SubSeq(b, i + 1, i + Len(a)) = a

RECURSIVE JoinSpace(_)
\* ' '.join(strings)
JoinSpace(strs) ==
    IF strs = <<>> THEN <<>>
    ELSE IF Len(strs) = 1 THEN strs[1]
    ELSE strs[1] \o <<" ">> \o JoinSpace(Tail(strs))

\* any(...) over the outcomes of the generator's items, evaluated in order:
\* the first item that is not False decides (True, or the exception it raises)
PyAny(outs) ==
    IF \A i \in DOMAIN outs : outs[i] = "False" THEN "False"
    ELSE outs[CHOOSE i \in DOMAIN outs :
                 outs[i] # "False" /\ \A j \in 1..(i - 1) : outs[j] = "False"]

\* all(...) that wants at least one item
PyAll_some(outs) ==
    IF outs = <<>> THEN "False"
    ELSE IF \A i \in DOMAIN outs : outs[i] = "True" THEN "True"
    ELSE outs[CHOOSE i \in DOMAIN outs :
                 outs[i] # "True" /\ \A j \in 1..(i - 1) : outs[j] = "True"]

\* all(...): the first item that is not True decides
PyAll(outs) ==
    IF \A i \in DOMAIN outs : outs[i] = "True" THEN "True"
    ELSE outs[CHOOSE i \in DOMAIN outs :
                 outs[i] # "True" /\ \A j \in 1..(i - 1) : outs[j] = "True"]

\* not x, for an outcome x
PyNot(out) ==
    IF out = "True" THEN "False" ELSE IF out = "False" THEN "True" ELSE out

\* item in entity_values: list membership by ==, a number is no container
ItemIn(item, ev) ==
    IF ev.kind = "list" THEN Bool(\E i \in DOMAIN ev.items : ev.items[i] = item)
    ELSE "TypeError"

\* item in value, for value a single entity value: substring of a string
ItemInValue(item, value) ==
    IF IsStr(value) /\ IsStr(item) THEN Bool(IsSubstring(item.s, value.s))
    ELSE "TypeError"

\* item in ' '.join(entity_values)
ItemInJoined(item, ev) ==
    IF ev.kind # "list" THEN "TypeError"
    ELSE IF \E i \in DOMAIN ev.items : ~IsStr(ev.items[i]) THEN "TypeError"
    ELSE IF ~IsStr(item) THEN "TypeError"
    ELSE Bool(IsSubstring(item.s,
                          JoinSpace([i \in DOMAIN ev.items |-> ev.items[i].s])))

\* item < entity_values and the other three orderings, entity_values a scalar
Compare(rel, item, ev) ==
    IF ev.kind # "scalar" \/ ~IsNum(item) \/ ~IsNum(ev.items[1]) THEN "TypeError"
    ELSE LET a == item.n
             b == ev.items[1].n
         IN  CASE rel = "<"  -> Bool(a < b)
               [] rel = "<=" -> Bool(a <= b)
               [] rel = ">"  -> Bool(a > b)
               [] rel = ">=" -> Bool(a >= b)

---------------------------------------------------------------------------
(* search_entity: the operator evaluator *)

\* short_circuit without the test for a comparable criterion
short_circuit_like_only(entity_values, operator_, is_comparable) ==
    ~Truthy(entity_values) /\ operator_ = "like"

\* short_circuit without the test for operator like
short_circuit_no_like(entity_values, operator_, is_comparable) ==
    ~Truthy(entity_values) /\ is_comparable

\* short_circuit on the empty value alone
short_circuit_always(entity_values, operator_, is_comparable) ==
    ~Truthy(entity_values)

\* line 100: no entity value, and operator like or a comparable criterion
short_circuit(entity_values, operator_, is_comparable) ==
    ~Truthy(entity_values) /\ (operator_ = "like" \/ is_comparable)

\* equal_or with all() in place of any()
equal_or_all(entity_values, search_values) ==
    PyAll([i \in DOMAIN search_values |-> ItemIn(search_values[i], entity_values)])

equal_or(entity_values, search_values) ==
    PyAny([i \in DOMAIN search_values |-> ItemIn(search_values[i], entity_values)])

\* equal_and with any() in place of all()
equal_and_any(entity_values, search_values) ==
    PyAny([i \in DOMAIN search_values |-> ItemIn(search_values[i], entity_values)])

equal_and(entity_values, search_values) ==
    PyAll([i \in DOMAIN search_values |-> ItemIn(search_values[i], entity_values)])

\* notEqual_or with all() in place of any()
notEqual_or_all(entity_values, search_values) ==
    PyNot(PyAll([i \in DOMAIN search_values |->
                    ItemIn(search_values[i], entity_values)]))

notEqual_or(entity_values, search_values) ==
    PyNot(PyAny([i \in DOMAIN search_values |->
                    ItemIn(search_values[i], entity_values)]))

\* notEqual_and with any() in place of all()
notEqual_and_any(entity_values, search_values) ==
    PyNot(PyAny([i \in DOMAIN search_values |->
                    ItemIn(search_values[i], entity_values)]))

notEqual_and(entity_values, search_values) ==
    PyNot(PyAll([i \in DOMAIN search_values |->
                    ItemIn(search_values[i], entity_values)]))

\* like_or looking at the first entity value only
like_or_first(entity_values, search_values) ==
    IF search_values = <<>> THEN "False"
    ELSE IF entity_values.kind # "list" THEN "TypeError"
    ELSE PyAny([p \in DOMAIN search_values |->
                  ItemInValue(search_values[p], entity_values.items[1])])

\* the nested generator: item is the outer loop, value the inner one
like_or(entity_values, search_values) ==
    IF search_values = <<>> THEN "False"
    ELSE IF entity_values.kind # "list" THEN "TypeError"
    ELSE LET m == Len(entity_values.items)
             k == Len(search_values)
         IN  PyAny([p \in 1..(k * m) |->
                      ItemInValue(search_values[((p - 1) \div m) + 1],
                                  entity_values.items[((p - 1) % m) + 1])])

\* like_and without the join: every search value in some single entity value
like_and_unjoined(entity_values, search_values) ==
    PyAll([i \in DOMAIN search_values |->
              IF entity_values.kind # "list" THEN "TypeError"
              ELSE PyAny([j \in DOMAIN entity_values.items |->
                            ItemInValue(search_values[i],
                                        entity_values.items[j])])])

like_and(entity_values, search_values) ==
    PyAll([i \in DOMAIN search_values |->
              ItemInJoined(search_values[i], entity_values)])

ordering_or(rel, entity_values, search_values) ==
    PyAny([i \in DOMAIN search_values |->
              Compare(rel, search_values[i], entity_values)])

ordering_and(rel, entity_values, search_values) ==
    PyAll([i \in DOMAIN search_values |->
              Compare(rel, search_values[i], entity_values)])

\* ordering_relation with the comparisons the operator names suggest
ordering_relation_as_named(operator_) ==
    CASE operator_ = "greaterThan"      -> ">"
      [] operator_ = "greaterThanEqual" -> ">="
      [] operator_ = "lesserThan"       -> "<"
      [] operator_ = "lesserThanEqual"  -> "<="

\* the comparison each ordering operator applies as  item REL entity_values
ordering_relation(operator_) ==
    CASE operator_ = "greaterThan"      -> "<"
      [] operator_ = "greaterThanEqual" -> "<="
      [] operator_ = "lesserThan"       -> ">"
      [] operator_ = "lesserThanEqual"  -> ">="

OrderingOperators ==
    {"greaterThan", "greaterThanEqual", "lesserThan", "lesserThanEqual"}

\* search_entity taking every combinator other than and for or
search_entity_or_default(entity_values, operator_, search_values, logical_operator, is_comparable) ==
    IF short_circuit(entity_values, operator_, is_comparable) THEN "False"
    ELSE IF operator_ = "equal" /\ logical_operator # "and"
         THEN equal_or(entity_values, search_values)
    ELSE IF operator_ = "equal" /\ logical_operator = "and"
         THEN equal_and(entity_values, search_values)
    ELSE IF operator_ = "notEqual" /\ logical_operator # "and"
         THEN notEqual_or(entity_values, search_values)
    ELSE IF operator_ = "notEqual" /\ logical_operator = "and"
         THEN notEqual_and(entity_values, search_values)
    ELSE IF operator_ = "like" /\ logical_operator # "and"
         THEN like_or(entity_values, search_values)
    ELSE IF operator_ = "like" /\ logical_operator = "and"
         THEN like_and(entity_values, search_values)
    ELSE IF operator_ \in OrderingOperators /\ is_comparable
            /\ logical_operator # "and"
         THEN ordering_or(ordering_relation(operator_), entity_values,
                          search_values)
    ELSE IF operator_ \in OrderingOperators /\ is_comparable
            /\ logical_operator = "and"
         THEN ordering_and(ordering_relation(operator_), entity_values,
                           search_values)
    ELSE "WrongOperatorError"

\* search_entity with the ordering operators open to every criterion
search_entity_orders_all(entity_values, operator_, search_values, logical_operator, is_comparable) ==
    IF short_circuit(entity_values, operator_, is_comparable) THEN "False"
    ELSE IF operator_ = "equal" /\ logical_operator = "or"
         THEN equal_or(entity_values, search_values)
    ELSE IF operator_ = "equal" /\ logical_operator = "and"
         THEN equal_and(entity_values, search_values)
    ELSE IF operator_ = "notEqual" /\ logical_operator = "or"
         THEN notEqual_or(entity_values, search_values)
    ELSE IF operator_ = "notEqual" /\ logical_operator = "and"
         THEN notEqual_and(entity_values, search_values)
    ELSE IF operator_ = "like" /\ logical_operator = "or"
         THEN like_or(entity_values, search_values)
    ELSE IF operator_ = "like" /\ logical_operator = "and"
         THEN like_and(entity_values, search_values)
    ELSE IF operator_ \in OrderingOperators /\ logical_operator = "or"
         THEN ordering_or(ordering_relation(operator_), entity_values,
                          search_values)
    ELSE IF operator_ \in OrderingOperators /\ logical_operator = "and"
         THEN ordering_and(ordering_relation(operator_), entity_values,
                           search_values)
    ELSE "WrongOperatorError"

search_entity(entity_values, operator_, search_values, logical_operator, is_comparable) ==
    IF short_circuit(entity_values, operator_, is_comparable) THEN "False"
    ELSE IF operator_ = "equal" /\ logical_operator = "or"
         THEN equal_or(entity_values, search_values)
    ELSE IF operator_ = "equal" /\ logical_operator = "and"
         THEN equal_and(entity_values, search_values)
    ELSE IF operator_ = "notEqual" /\ logical_operator = "or"
         THEN notEqual_or(entity_values, search_values)
    ELSE IF operator_ = "notEqual" /\ logical_operator = "and"
         THEN notEqual_and(entity_values, search_values)
    ELSE IF operator_ = "like" /\ logical_operator = "or"
         THEN like_or(entity_values, search_values)
    ELSE IF operator_ = "like" /\ logical_operator = "and"
         THEN like_and(entity_values, search_values)
    ELSE IF operator_ \in OrderingOperators /\ is_comparable
            /\ logical_operator = "or"
         THEN ordering_or(ordering_relation(operator_), entity_values,
                          search_values)
    ELSE IF operator_ \in OrderingOperators /\ is_comparable
            /\ logical_operator = "and"
         THEN ordering_and(ordering_relation(operator_), entity_values,
                           search_values)
    ELSE "WrongOperatorError"

---------------------------------------------------------------------------
(* The data the search reads: type hierarchy, links, entities *)

\* a result that is either a list of values or a raised exception
Ok(val) == [err |-> "", val |-> val]

Raise(err) == [err |-> err, val |-> <<>>]

\* the type tree: root 1 with children 2 and 3, and 2 with child 4
TypeIds == {1, 2, 3, 4}

g_types ==
    [id \in TypeIds |->
        CASE id = 1 -> [name |-> <<"R", "o", "o", "t">>, subs |-> <<2, 3>>]
          [] id = 2 -> [name |-> <<"S", "i", "t", "e">>, subs |-> <<4>>]
          [] id = 3 -> [name |-> <<"F", "i", "n", "d">>, subs |-> <<>>]
          [] id = 4 -> [name |-> <<"T", "o", "m", "b">>, subs |-> <<>>]]

\* Type.get_all_sub_ids: the ids one level below a type
get_all_sub_ids(type_) == type_.subs

NoDescription == <<>>

\* the links that carry a value: type id, free-text description, domain id
Links ==
    << [type |-> 5, description |-> <<"4", "2", ".", "5">>, domain |-> 7],
       [type |-> 5, description |-> <<"0">>,                domain |-> 8],
       [type |-> 5, description |-> NoDescription,          domain |-> 9],
       [type |-> 5, description |-> <<"4", "0">>,           domain |-> 7],
       [type |-> 6, description |-> <<"d", "e", "e", "p">>, domain |-> 9] >>

\* get_links: the links of one type, in stored order
get_links(type_id) == SelectSeq(Links, LAMBDA l : l.type = type_id)

\* get_linked_entities_id_api: the ids linked to an entity
get_linked_entities_id_api(id_) ==
    CASE id_ = 7 -> <<8, 9>>
      [] id_ = 8 -> <<7>>
      [] id_ = 9 -> <<7, 8>>
      [] OTHER   -> <<>>

RECURSIVE Flatten(_)
Flatten(lists) ==
    IF lists = <<>> THEN <<>> ELSE Head(lists) \o Flatten(Tail(lists))

RECURSIVE RemoveDuplicates(_)
\* keeps the first occurrence of every element
RemoveDuplicates(list_) ==
    IF list_ = <<>> THEN <<>>
    ELSE LET front == RemoveDuplicates(SubSeq(list_, 1, Len(list_) - 1))
             last == list_[Len(list_)]
         IN  IF \E i \in DOMAIN front : front[i] = last THEN front
             ELSE Append(front, last)

flatten_list_and_remove_duplicates(list_) == RemoveDuplicates(Flatten(list_))

---------------------------------------------------------------------------
(* Conversions *)

LowerChar(c) ==
    CASE c = "A" -> "a" [] c = "B" -> "b" [] c = "C" -> "c" [] c = "E" -> "e"
      [] c = "F" -> "f" [] c = "P" -> "p" [] c = "R" -> "r" [] c = "S" -> "s"
      [] c = "T" -> "t" [] OTHER -> c

\* str.lower()
Lower(chars) == [i \in DOMAIN chars |-> LowerChar(chars[i])]

Digits == {"0", "1", "2", "3", "4", "5", "6", "7", "8", "9"}

DigitValue(c) ==
    CASE c = "0" -> 0 [] c = "1" -> 1 [] c = "2" -> 2 [] c = "3" -> 3
      [] c = "4" -> 4 [] c = "5" -> 5 [] c = "6" -> 6 [] c = "7" -> 7
      [] c = "8" -> 8 [] c = "9" -> 9

RECURSIVE DigitsValue(_)
DigitsValue(chars) ==
    IF chars = <<>> THEN 0
    ELSE DigitsValue(SubSeq(chars, 1, Len(chars) - 1)) * 10
            + DigitValue(chars[Len(chars)])

AllDigits(chars) == \A i \in DOMAIN chars : chars[i] \in Digits

\* float(text) for decimal literals with at most one fractional digit: the
\* number in tenths, or ValueError for text that is no number
ParseFloat(chars) ==
    LET negative == chars # <<>> /\ chars[1] = "-"
        body == IF negative THEN Tail(chars) ELSE chars
        dots == {i \in DOMAIN body : body[i] = "."}
        sign == IF negative THEN -1 ELSE 1
    IN  IF dots = {}
        THEN IF body # <<>> /\ AllDigits(body)
             THEN Ok(<<Num(sign * DigitsValue(body) * 10)>>)
             ELSE Raise("ValueError")
        ELSE LET dot == CHOOSE i \in dots : TRUE
                 whole == SubSeq(body, 1, dot - 1)
                 frac == SubSeq(body, dot + 1, Len(body))
             IN  IF /\ Cardinality(dots) = 1
                    /\ AllDigits(whole) /\ AllDigits(frac)
                    /\ Len(whole) + Len(frac) > 0
                 THEN CASE Len(frac) <= 1 ->
                          Ok(<<Num(sign * (DigitsValue(whole) * 10
                                           + DigitsValue(frac)))>>)
                 ELSE Raise("ValueError")

---------------------------------------------------------------------------
(* The criterion resolver *)

\* a key a raw criterion does not carry
Missing == "(missing)"

DateCategories == {"beginFrom", "beginTo", "endFrom", "endTo"}

\* check_if_date_search: the four date fields are date-comparable
check_if_date_search(category) == category \in DateCategories

\* the integer a number stands for, -1 for anything that is no integer
IdOf(value) ==
    IF IsNum(value) /\ value.n % 10 = 0 THEN value.n \div 10 ELSE -1

IdValues(ids) == [i \in DOMAIN ids |-> IntV(ids[i])]

\* get_sub_ids without the recursive calls: one level only
get_sub_ids_one_level(id_, subs) == subs \o get_all_sub_ids(g_types[id_])

RECURSIVE get_sub_ids(_, _), get_sub_ids_loop(_, _)
\* extends subs by the ids below id_, then descends into each of them
get_sub_ids(id_, subs) ==
    LET new_subs == get_all_sub_ids(g_types[id_])
    IN  get_sub_ids_loop(new_subs, subs \o new_subs)

\* for sub in new_subs: get_sub_ids(sub, subs)
get_sub_ids_loop(new_subs, subs) ==
    IF new_subs = <<>> THEN subs
    ELSE get_sub_ids_loop(Tail(new_subs), get_sub_ids(Head(new_subs), subs))

RECURSIVE get_sub_ids_on(_, _, _, _), get_sub_ids_on_loop(_, _, _, _)
\* lines 21-26 over any hierarchy types, an id to its child ids, with the
\* frames of the call stack counted: a chain of calls longer than the number
\* of types passes one type twice and then repeats itself without end, until
\* the interpreter gives up with RecursionError
get_sub_ids_on(types, id_, subs, frames) ==
    IF frames > Cardinality(DOMAIN types) THEN Raise("RecursionError")
    ELSE get_sub_ids_on_loop(types, types[id_], Ok(subs \o types[id_]), frames)

\* for sub in new_subs: get_sub_ids(sub, subs), one frame deeper
get_sub_ids_on_loop(types, new_subs, subs, frames) ==
    IF subs.err # "" \/ new_subs = <<>> THEN subs
    ELSE get_sub_ids_on_loop(
             types, Tail(new_subs),
             get_sub_ids_on(types, Head(new_subs), subs.val, frames + 1),
             frames)

IsError(out) == out \notin {"True", "False"}

\* the first outcome in order that is an exception, "" if there is none
FirstError(outs) ==
    IF \A i \in DOMAIN outs : ~IsError(outs[i]) THEN ""
    ELSE outs[CHOOSE i \in DOMAIN outs :
                 IsError(outs[i]) /\ \A j \in 1..(i - 1) : ~IsError(outs[j])]

\* lines 82-89 for one link: is its domain id collected
link_matches(link_, values, parameter) ==
    IF link_.description = NoDescription THEN "False"
    ELSE IF parameter.operator = Missing THEN "KeyError"
    ELSE LET number == ParseFloat(link_.description)
         IN  IF number.err # "" THEN number.err
             ELSE IF parameter.logicalOperator = Missing THEN "KeyError"
             ELSE search_entity(
                      IF parameter.operator \in {"equal", "notEqual"}
                      THEN List(number.val) ELSE Scalar(number.val[1]),
                      parameter.operator,
                      <<Num(values.m)>>,
                      parameter.logicalOperator,
                      TRUE)

search_for_value(values, parameter) ==
    LET links == get_links(values.n)
        outs == [i \in DOMAIN links |-> link_matches(links[i], values, parameter)]
        tried == [i \in DOMAIN links |-> [id |-> links[i].domain, out |-> outs[i]]]
        hits == SelectSeq(tried, LAMBDA r : r.out = "True")
    IN  IF FirstError(outs) # "" THEN Raise(FirstError(outs))
        ELSE Ok([i \in DOMAIN hits |-> hits[i].id])

\* the exceptions among a sequence of results, "True" where there is none
ErrorsOf(results) ==
    [k \in DOMAIN results |->
        IF results[k].err = "" THEN "True" ELSE results[k].err]

\* line 62: strings are lowercased, other values stay
lowered(values) ==
    [i \in DOMAIN values |->
        IF IsStr(values[i]) THEN Str(Lower(values[i].s)) ELSE values[i]]

\* lines 65-66 for values that all are type ids
with_sub_ids(values) ==
    values \o IdValues(flatten_list_and_remove_duplicates(
                  [i \in DOMAIN values |-> get_sub_ids(IdOf(values[i]), <<>>)]))

\* lines 71-72, given what search_for_value gave for each value
flatten_found(found) ==
    IF FirstError(ErrorsOf(found)) # "" THEN Raise(FirstError(ErrorsOf(found)))
    ELSE Ok(IdValues(flatten_list_and_remove_duplicates(
                [i \in DOMAIN found |-> found[i].val])))

get_search_values(category, parameter) ==
    IF category = "typeIDWithSubs"
    THEN IF \E i \in DOMAIN parameter.values :
                IdOf(lowered(parameter.values)[i]) \notin TypeIds
         THEN Raise("KeyError")
         ELSE Ok(with_sub_ids(lowered(parameter.values)))
    ELSE IF category = "relationToID"
    THEN Ok(IdValues(flatten_list_and_remove_duplicates(
                [i \in DOMAIN parameter.values |->
                    get_linked_entities_id_api(
                        IdOf(lowered(parameter.values)[i]))])))
    ELSE IF category = "valueTypeID"
    THEN flatten_found([i \in DOMAIN parameter.values |->
                           search_for_value(lowered(parameter.values)[i],
                                            parameter)])
    ELSE Ok(lowered(parameter.values))

\* a resolved criterion, or the exception its resolution raised
Resolved(err, parameter) == [err |-> err, parameter |-> parameter]

\* parameter = {}
EmptyParameter ==
    [search_values |-> <<>>, logical_operator |-> Missing, operator |-> Missing,
     category |-> Missing, is_date |-> FALSE]

\* lines 48-55: the dict one raw criterion i of a category gives
resolve_one(category, i) ==
    LET search_values == get_search_values(category, i)
    IN  IF search_values.err # "" THEN Resolved(search_values.err, EmptyParameter)
        ELSE IF category # "valueTypeID" /\ i.operator = Missing
        THEN Resolved("KeyError", EmptyParameter)
        ELSE Resolved("",
                 [search_values |-> search_values.val,
                  logical_operator |-> IF i.logicalOperator # Missing
                                       THEN i.logicalOperator ELSE "or",
                  operator |-> IF category = "valueTypeID"
                               THEN "equal" ELSE i.operator,
                  category |-> category,
                  is_date |-> check_if_date_search(category)])

\* a parser element is a dict category -> list of raw criteria, modelled as
\* the sequence of its items in iteration order
ItemsOf(parser) ==
    Flatten([k \in DOMAIN parser |->
                [j \in DOMAIN parser[k].criteria |->
                    [category |-> parser[k].category,
                     i |-> parser[k].criteria[j]]]])

\* last_update that forgets the exception of an earlier criterion
last_update_last_only(each) ==
    IF each = <<>> THEN Resolved("", EmptyParameter)
    ELSE IF each[Len(each)].err # ""
    THEN Resolved(each[Len(each)].err, EmptyParameter)
    ELSE each[Len(each)]

\* last_update keeping the first criterion in place of the last
last_update_first(each) ==
    IF FirstError(ErrorsOf(each)) # ""
    THEN Resolved(FirstError(ErrorsOf(each)), EmptyParameter)
    ELSE IF each = <<>> THEN Resolved("", EmptyParameter)
    ELSE each[1]

\* the parameter dict after the loops over the given items
last_update(each) ==
    IF FirstError(ErrorsOf(each)) # ""
    THEN Resolved(FirstError(ErrorsOf(each)), EmptyParameter)
    ELSE IF each = <<>> THEN Resolved("", EmptyParameter)
    ELSE each[Len(each)]

resolve_each(items) ==
    [k \in DOMAIN items |-> resolve_one(items[k].category, items[k].i)]

\* every update overwrites all five keys: the last criterion stays, and the
\* first exception in iteration order ends the call
get_search_parameter(parser) == last_update(resolve_each(ItemsOf(parser)))

---------------------------------------------------------------------------
(* The value extractor and the orchestrator *)

NoDate == [y |-> 0, m |-> 0, d |-> 0]

Day(y, m, d) == [y |-> y, m |-> m, d |-> d]

\* the comparable a date is parsed to: its ordinal as a number
Date(y, m, d) == Num(y * 10000 + m * 100 + d)

\* check_if_date(str(field)): the comparable of a date, nothing for a field
\* that holds no date
check_if_date(field) ==
    IF field = NoDate THEN List(<<>>)
    ELSE Scalar(Date(field.y, field.m, field.d))

\* value_to_be_searched falling back to the entity id for an unknown key
value_to_be_searched_id(entity, key) ==
    IF key \in {"entityID", "relationToID", "valueTypeID"}
    THEN List(<<IntV(entity.id)>>)
    ELSE IF key = "entityName" THEN List(<<Str(Lower(entity.name))>>)
    ELSE IF key = "entityDescription" /\ entity.description # NoDescription
    THEN List(<<Str(Lower(entity.description))>>)
    ELSE IF key = "entityAliases"
    THEN List([i \in DOMAIN entity.aliases |-> Str(Lower(entity.aliases[i]))])
    ELSE IF key = "entityCidocClass" THEN List(<<Str(Lower(entity.cidoc_class))>>)
    ELSE IF key = "entitySystemClass" THEN List(<<Str(Lower(entity.class_))>>)
    ELSE IF key = "typeName"
    THEN List([i \in DOMAIN entity.types |->
                  Str(Lower(g_types[entity.types[i]].name))])
    ELSE IF key \in {"typeID", "typeIDWithSubs"}
    THEN List([i \in DOMAIN entity.types |-> IntV(entity.types[i])])
    ELSE IF key = "beginFrom" THEN check_if_date(entity.begin_from)
    ELSE IF key = "beginTo" THEN check_if_date(entity.begin_to)
    ELSE IF key = "endFrom" THEN check_if_date(entity.end_from)
    ELSE IF key = "endTo" THEN check_if_date(entity.end_to)
    ELSE List(<<IntV(entity.id)>>)

value_to_be_searched(entity, key) ==
    IF key \in {"entityID", "relationToID", "valueTypeID"}
    THEN List(<<IntV(entity.id)>>)
    ELSE IF key = "entityName" THEN List(<<Str(Lower(entity.name))>>)
    ELSE IF key = "entityDescription" /\ entity.description # NoDescription
    THEN List(<<Str(Lower(entity.description))>>)
    ELSE IF key = "entityAliases"
    THEN List([i \in DOMAIN entity.aliases |-> Str(Lower(entity.aliases[i]))])
    ELSE IF key = "entityCidocClass" THEN List(<<Str(Lower(entity.cidoc_class))>>)
    ELSE IF key = "entitySystemClass" THEN List(<<Str(Lower(entity.class_))>>)
    ELSE IF key = "typeName"
    THEN List([i \in DOMAIN entity.types |->
                  Str(Lower(g_types[entity.types[i]].name))])
    ELSE IF key \in {"typeID", "typeIDWithSubs"}
    THEN List([i \in DOMAIN entity.types |-> IntV(entity.types[i])])
    ELSE IF key = "beginFrom" THEN check_if_date(entity.begin_from)
    ELSE IF key = "beginTo" THEN check_if_date(entity.begin_to)
    ELSE IF key = "endFrom" THEN check_if_date(entity.end_from)
    ELSE IF key = "endTo" THEN check_if_date(entity.end_to)
    ELSE List(<<>>)

\* an empty parameter dict has no key 'category'
search_result(entity, p) ==
    IF p.category = Missing THEN "KeyError"
    ELSE search_entity(value_to_be_searched(entity, p.category), p.operator,
                       p.search_values, p.logical_operator, p.is_date)

\* iterate_through_entities requiring every criterion to match
iterate_through_entities_all(entity, params) ==
    LET outs == [k \in DOMAIN params |-> search_result(entity, params[k])]
    IN  IF FirstError(outs) # "" THEN FirstError(outs)
        ELSE Bool(\A k \in DOMAIN outs : outs[k] = "True")

\* iterate_through_entities stopping at the first criterion that matches
iterate_through_entities_lazy(entity, params) ==
    LET outs == [k \in DOMAIN params |-> search_result(entity, params[k])]
    IN  IF \E k \in DOMAIN outs :
              outs[k] = "True" /\ \A j \in 1..(k - 1) : ~IsError(outs[j])
        THEN "True"
        ELSE IF FirstError(outs) # "" THEN FirstError(outs)
        ELSE "False"

\* the list comprehension evaluates every criterion; the entity matches when
\* the list of matching criteria is not empty
iterate_through_entities(entity, params) ==
    LET outs == [k \in DOMAIN params |-> search_result(entity, params[k])]
    IN  IF FirstError(outs) # "" THEN FirstError(outs)
        ELSE Bool(\E k \in DOMAIN outs : outs[k] = "True")

\* keep putting a matching entity in front of the list
keep_in_front(kept, entity, matches) ==
    IF matches = "True" THEN <<entity>> \o kept ELSE kept

\* line 18: one step of the filtering list comprehension
keep(kept, entity, matches) ==
    IF matches = "True" THEN Append(kept, entity) ELSE kept

---------------------------------------------------------------------------
(* The evaluator on its own: every call of search_entity over bounded inputs *)

\* longest list of entity values and of search values
MaxValues == 2

SeqsUpTo(S, n) == UNION {[1..k -> S] : k \in 0..n}

NumValues == {IntV(0), IntV(1), IntV(2)}

StrValues == {Str(<<"a">>), Str(<<"b">>), Str(<<"a", " ", "b">>)}

Values == NumValues \cup StrValues

Operators ==
    {"equal", "notEqual", "like"} \cup OrderingOperators \cup {"contains"}

LogicalOperators == {"or", "and", "xor"}

\* a list holds values of one Python type, as value_to_be_searched and the
\* request parser build them
ValueLists ==
    SeqsUpTo(NumValues, MaxValues) \cup SeqsUpTo(StrValues, MaxValues)

EntityValueInputs ==
    {List(s) : s \in ValueLists} \cup {Scalar(v) : v \in NumValues}

Call(ev, op, sv, lo, cmp) ==
    [entity_values |-> ev, operator_ |-> op, search_values |-> sv,
     logical_operator |-> lo, is_comparable |-> cmp]

BoundedCalls ==
    {Call(ev, op, sv, lo, cmp) :
        ev \in EntityValueInputs, op \in Operators,
        sv \in ValueLists, lo \in LogicalOperators, cmp \in BOOLEAN}

SanFrancisco ==
    Str(<<"s", "a", "n", " ", "f", "r", "a", "n", "c", "i", "s", "c", "o">>)

San == Str(<<"s", "a", "n">>)

Cisco == Str(<<"c", "i", "s", "c", "o">>)

Rome == Str(<<"r", "o", "m", "e">>)

\* the calls the specification gives as examples
ExampleCalls ==
    {Call(List(<<SanFrancisco>>), "like", sv, lo, FALSE) :
        sv \in {<<San, Cisco>>, <<Rome>>}, lo \in {"or", "and"}}
    \cup
    {Call(Scalar(d[1]), "greaterThan", <<d[2]>>, lo, TRUE) :
        d \in {<<Date(1990, 1, 1), Date(2000, 1, 1)>>,
               <<Date(2000, 1, 1), Date(1990, 1, 1)>>},
        lo \in {"or", "and"}}

EvalIdle ==
    /\ args = Call(List(<<>>), "equal", <<>>, "or", FALSE)
    /\ outcome = "idle"

ResolveIdle ==
    /\ element = <<>>
    /\ resolved = Resolved("idle", EmptyParameter)

SearchIdle ==
    /\ entities = <<>>
    /\ criteria = <<>>
    /\ resolving = <<>>
    /\ checked = 0
    /\ result = <<>>
    /\ pc = "idle"
    /\ raised = ""

ExpandIdle ==
    /\ expanding = [types |-> <<>>, id_ |-> 0]
    /\ expanded = Raise("idle")

EvalInit ==
    /\ args \in BoundedCalls \cup ExampleCalls
    /\ outcome = "pending"
    /\ ResolveIdle
    /\ SearchIdle
    /\ ExpandIdle

Evaluate ==
    /\ outcome = "pending"
    /\ outcome' = search_entity(args.entity_values, args.operator_,
                                args.search_values, args.logical_operator,
                                args.is_comparable)
    /\ UNCHANGED <<args, resolveVars, searchVars, expandVars>>

EvalNext == Evaluate

EvalSpec == EvalInit /\ [][EvalNext]_vars

---------------------------------------------------------------------------
(* The resolver on its own: get_search_parameter over bounded parser elements *)

Criterion(op, values, lo) ==
    [operator |-> op, values |-> values, logicalOperator |-> lo]

CategoryItem(category, crits) == [category |-> category, criteria |-> crits]

\* a parser element with one category and one criterion
Element(category, crit) == <<CategoryItem(category, <<crit>>)>>

RawCombinators == {"or", "and", Missing}

\* type ids of the tree, and one id that is no type
RawTypeIds == {IntV(id) : id \in TypeIds} \cup {IntV(9)}

RawPairs == {Pair(t, n) : t \in {5, 6}, n \in {-10, 0, 400, 425}}

RawIds == {IntV(7), IntV(8), IntV(9)}

RawPlain == {IntV(7), Str(<<"A", "p", "s", "e">>), Str(<<"r">>)}

\* raw criteria for elements that give one category several of them
RepeatedCriteria ==
    { Criterion("equal", <<Str(<<"A", "p", "s", "e">>)>>, "or"),
      Criterion("like", <<Str(<<"r">>)>>, "and"),
      Criterion("equal", <<Str(<<"B", "e", "m", "a">>)>>, Missing) }

RepeatedElements ==
    {<<CategoryItem(category, <<c1, c2>>)>> :
        category \in {"entityName", "entityAliases"},
        c1 \in RepeatedCriteria, c2 \in RepeatedCriteria}
    \cup
    {<<CategoryItem("entityName", <<c1, c2, c1>>)>> :
        c1 \in RepeatedCriteria, c2 \in RepeatedCriteria}

\* the items of elements that carry two categories; two of them raise when
\* resolved (KeyError for the unknown type, ValueError for the link "deep")
MixedItems ==
    { CategoryItem("entityID", <<Criterion("equal", <<IntV(7)>>, "or")>>),
      CategoryItem("entityName",
          <<Criterion("equal", <<Str(<<"B", "e", "m", "a">>)>>, Missing),
            Criterion("like", <<Str(<<"r">>)>>, "and")>>),
      CategoryItem("typeIDWithSubs", <<Criterion("equal", <<IntV(9)>>, "or")>>),
      CategoryItem("valueTypeID", <<Criterion("equal", <<Pair(6, 0)>>, "or")>>) }

MixedElements ==
    {<<ab[1], ab[2]>> :
        ab \in {p \in MixedItems \X MixedItems : p[1].category # p[2].category}}

ResolveElements ==
    {Element("typeIDWithSubs", Criterion(op, vs, lo)) :
        op \in {"equal", "notEqual"}, vs \in SeqsUpTo(RawTypeIds, MaxValues),
        lo \in RawCombinators}
    \cup
    {Element("valueTypeID", Criterion(op, vs, lo)) :
        op \in Operators \cup {Missing}, vs \in SeqsUpTo(RawPairs, MaxValues),
        lo \in RawCombinators}
    \cup
    {Element("relationToID", Criterion(op, vs, lo)) :
        op \in {"equal", "notEqual", "like"}, vs \in SeqsUpTo(RawIds, MaxValues),
        lo \in RawCombinators}
    \cup
    {Element(category, Criterion(op, vs, lo)) :
        category \in {"entityID", "entityName", "entityDescription",
                      "beginFrom", "colour"},
        op \in {"equal", "like", "greaterThan", Missing},
        vs \in SeqsUpTo(RawPlain, MaxValues), lo \in RawCombinators}
    \cup RepeatedElements
    \cup MixedElements
    \cup
    { <<>>,
      <<CategoryItem("entityName",
            <<Criterion("equal", <<Str(<<"A", "p", "s", "e">>)>>, "or"),
              Criterion("like", <<Str(<<"r">>)>>, "and")>>)>>,
      <<CategoryItem("entityID", <<Criterion("equal", <<IntV(7)>>, "or")>>),
        CategoryItem("entityName", <<Criterion("like", <<Str(<<"r">>)>>, Missing)>>)>>,
      <<CategoryItem("typeIDWithSubs", <<Criterion("equal", <<IntV(9)>>, "or")>>),
        CategoryItem("entityID", <<Criterion("equal", <<IntV(7)>>, "or")>>)>> }

ResolveInit ==
    /\ element \in ResolveElements
    /\ resolved = Resolved("pending", EmptyParameter)
    /\ EvalIdle
    /\ SearchIdle
    /\ ExpandIdle

Resolve ==
    /\ resolved.err = "pending"
    /\ resolved' = get_search_parameter(element)
    /\ UNCHANGED <<element, evalVars, searchVars, expandVars>>

ResolveNext == Resolve

ResolveSpec == ResolveInit /\ [][ResolveNext]_vars

---------------------------------------------------------------------------
(* get_sub_ids on its own, over every small hierarchy, cyclic ones included *)

ExpandIds == {1, 2, 3}

\* the child lists of one type: no child, one child, or two different ones
ChildLists ==
    {<<>>} \cup {<<a>> : a \in ExpandIds}
    \cup {<<ab[1], ab[2]>> : ab \in {p \in ExpandIds \X ExpandIds : p[1] # p[2]}}

Hierarchies == [ExpandIds -> ChildLists]

ExpandInit ==
    /\ expanding \in [types : Hierarchies, id_ : ExpandIds]
    /\ expanded = Raise("pending")
    /\ EvalIdle
    /\ ResolveIdle
    /\ SearchIdle

\* get_sub_ids(id_, []) as get_search_values calls it at line 66
Expand ==
    /\ expanded.err = "pending"
    /\ expanded' = get_sub_ids_on(expanding.types, expanding.id_, <<>>, 1)
    /\ UNCHANGED <<expanding, evalVars, resolveVars, searchVars>>

ExpandNext == Expand

ExpandSpec == ExpandInit /\ [][ExpandNext]_vars

---------------------------------------------------------------------------
(* The search call: search(entities, parser) *)

\* longest entity list
MaxEntities == 3

\* longest list of parser elements
MaxCriteria == 2

EntityA ==
    [id |-> 7, name |-> <<"A", "p", "s", "e">>, description |-> NoDescription,
     aliases |-> <<>>, cidoc_class |-> <<"E", "1", "8">>,
     class_ |-> <<"p", "l", "a", "c", "e">>, types |-> <<4>>,
     begin_from |-> Day(2000, 1, 1), begin_to |-> NoDate,
     end_from |-> NoDate, end_to |-> NoDate]

EntityB ==
    [id |-> 8, name |-> <<"B", "e", "m", "a">>,
     description |-> <<"A", " ", "b", "e", "m", "a">>,
     aliases |-> <<<<"A", "m", "b", "o">>>>, cidoc_class |-> <<"E", "2", "2">>,
     class_ |-> <<"f", "i", "n", "d">>, types |-> <<3>>,
     begin_from |-> Day(1990, 1, 1), begin_to |-> Day(1991, 1, 1),
     end_from |-> NoDate, end_to |-> NoDate]

EntityC ==
    [id |-> 9, name |-> <<"C", "r", "y", "p", "t">>,
     description |-> <<"c", "r", "y", "p", "t">>,
     aliases |-> <<>>, cidoc_class |-> <<"E", "1", "8">>,
     class_ |-> <<"p", "l", "a", "c", "e">>, types |-> <<>>,
     begin_from |-> NoDate, begin_to |-> NoDate,
     end_from |-> NoDate, end_to |-> NoDate]

Entities == {EntityA, EntityB, EntityC}

\* matches EntityA only
NameIsApse ==
    Element("entityName", Criterion("equal", <<Str(<<"A", "p", "s", "e">>)>>, "or"))

\* matches EntityB only
IdIs8 == Element("entityID", Criterion("equal", <<IntV(8)>>, "or"))

TypeUnderRoot == Element("typeIDWithSubs", Criterion("equal", <<IntV(1)>>, "or"))

ValueAtLeast40 ==
    Element("valueTypeID", Criterion("greaterThanEqual", <<Pair(5, 400)>>, "or"))

TypeIsFind == Element("typeID", Criterion("equal", <<IntV(3)>>, "and"))

NameLikeR == Element("entityName", Criterion("like", <<Str(<<"r">>)>>, "and"))

BeganAfter1995 ==
    Element("beginFrom", Criterion("greaterThan", <<Date(1995, 1, 1)>>, "or"))

\* raises WrongOperatorError when an entity is evaluated
NameContains ==
    Element("entityName", Criterion("contains", <<Str(<<"a">>)>>, "or"))

\* raises KeyError when resolved
TypeUnknown == Element("typeIDWithSubs", Criterion("equal", <<IntV(9)>>, "or"))

SearchElements ==
    {NameIsApse, IdIs8, TypeUnderRoot, ValueAtLeast40, TypeIsFind, NameLikeR,
     BeganAfter1995, NameContains, TypeUnknown}

Init ==
    /\ entities \in SeqsUpTo(Entities, MaxEntities)
    /\ criteria \in SeqsUpTo(SearchElements, MaxCriteria)
    /\ resolving = <<>>
    /\ checked = 0
    /\ result = <<>>
    /\ pc = "running"
    /\ raised = ""
    /\ EvalIdle
    /\ ResolveIdle
    /\ ExpandIdle

\* line 17: the next element of the list comprehension over parser
ResolveCriterion ==
    /\ pc = "running"
    /\ Len(resolving) < Len(criteria)
    /\ LET p == get_search_parameter(criteria[Len(resolving) + 1])
       IN  IF p.err # ""
           THEN /\ pc' = "raised"
                /\ raised' = p.err
                /\ UNCHANGED resolving
           ELSE /\ resolving' = Append(resolving, p.parameter)
                /\ UNCHANGED <<pc, raised>>
    /\ UNCHANGED <<entities, criteria, checked, result, evalVars, resolveVars,
                   expandVars>>

\* FilterEntity not waiting for the criteria still to be resolved
FilterEntity_early ==
    /\ pc = "running"
    /\ checked < Len(entities)
    /\ LET entity == entities[checked + 1]
           matches == iterate_through_entities(entity, resolving)
       IN  IF IsError(matches)
           THEN /\ pc' = "raised"
                /\ raised' = matches
                /\ result' = <<>>
                /\ UNCHANGED checked
           ELSE /\ result' = keep(result, entity, matches)
                /\ checked' = checked + 1
                /\ UNCHANGED <<pc, raised>>
    /\ UNCHANGED <<entities, criteria, resolving, evalVars, resolveVars,
                   expandVars>>

\* FilterEntity starting over after the last entity
FilterEntity_again ==
    /\ pc = "running"
    /\ Len(resolving) = Len(criteria)
    /\ checked < Len(entities)
    /\ LET entity == entities[checked + 1]
           matches == iterate_through_entities(entity, resolving)
       IN  IF IsError(matches)
           THEN /\ pc' = "raised"
                /\ raised' = matches
                /\ result' = <<>>
                /\ UNCHANGED checked
           ELSE /\ result' = IF checked + 1 = Len(entities) THEN <<>>
                             ELSE keep(result, entity, matches)
                /\ checked' = (checked + 1) % Len(entities)
                /\ UNCHANGED <<pc, raised>>
    /\ UNCHANGED <<entities, criteria, resolving, evalVars, resolveVars,
                   expandVars>>

\* line 18: the next entity of the filtering list comprehension
FilterEntity ==
    /\ pc = "running"
    /\ Len(resolving) = Len(criteria)
    /\ checked < Len(entities)
    /\ LET entity == entities[checked + 1]
           matches == iterate_through_entities(entity, resolving)
       IN  IF IsError(matches)
           THEN /\ pc' = "raised"
                /\ raised' = matches
                /\ result' = <<>>
                /\ UNCHANGED checked
           ELSE /\ result' = keep(result, entity, matches)
                /\ checked' = checked + 1
                /\ UNCHANGED <<pc, raised>>
    /\ UNCHANGED <<entities, criteria, resolving, evalVars, resolveVars,
                   expandVars>>

\* line 18: the list is complete and returned
Return ==
    /\ pc = "running"
    /\ Len(resolving) = Len(criteria)
    /\ checked = Len(entities)
    /\ pc' = "returned"
    /\ UNCHANGED <<entities, criteria, resolving, checked, result, raised,
                   evalVars, resolveVars,
                   expandVars>>

Next == ResolveCriterion \/ FilterEntity \/ Return

Spec == Init /\ [][Next]_vars

\* a step of the call can be taken: the guards of the three actions, each
\* of which changes a variable when it is taken
CanStep ==
    /\ pc = "running"
    /\ \/ Len(resolving) < Len(criteria)
       \/ Len(resolving) = Len(criteria) /\ checked < Len(entities)
       \/ Len(resolving) = Len(criteria) /\ checked = Len(entities)

\* the call is one thread running to its end: weak fairness of Next, that
\* is WF_vars(Next) with ENABLED <<Next>>_vars written out as CanStep
FairSpec == Spec /\ ([]<>(~CanStep) \/ []<><<Next>>_vars)

---------------------------------------------------------------------------
(* Properties of the evaluator *)

Evaluated == outcome \notin {"pending", "idle"}

EntityList == args.entity_values.kind = "list"

EntitySet ==
    {args.entity_values.items[i] : i \in DOMAIN args.entity_values.items}

SearchSet == {args.search_values[i] : i \in DOMAIN args.search_values}

Applies(op, lo) ==
    Evaluated /\ args.operator_ = op /\ args.logical_operator = lo

StringsOnly ==
    /\ EntityList
    /\ \A v \in EntitySet \cup SearchSet : IsStr(v)

SomeValueContains(item) == \E v \in EntitySet : IsSubstring(item.s, v.s)

JoinedContains(item) ==
    IsSubstring(item.s,
                JoinSpace([i \in DOMAIN args.entity_values.items |->
                              args.entity_values.items[i].s]))

LikeExamples ==
    /\ \A lo \in {"or", "and"} :
          /\ args = Call(List(<<SanFrancisco>>), "like", <<San, Cisco>>, lo, FALSE)
                => outcome = "True"
          /\ args = Call(List(<<SanFrancisco>>), "like", <<Rome>>, lo, FALSE)
                => outcome = "False"

\* C5 as stated: like/or is true exactly when some search value is a
\* substring of a single entity value, like/and exactly when every search
\* value is a substring of the space-joined entity values
C5_LikeEverywhere ==
    (Evaluated /\ args.operator_ = "like" /\ StringsOnly)
        => /\ args.logical_operator = "or"
                => outcome = Bool(\E item \in SearchSet : SomeValueContains(item))
           /\ args.logical_operator = "and"
                => outcome = Bool(\A item \in SearchSet : JoinedContains(item))
           /\ LikeExamples

\* C5 amended: in and-mode the entity value list must not be empty
C5_Like ==
    (Evaluated /\ args.operator_ = "like" /\ StringsOnly)
        => /\ args.logical_operator = "or"
                => outcome = Bool(\E item \in SearchSet : SomeValueContains(item))
           /\ args.logical_operator = "and"
                => outcome = Bool(/\ EntitySet # {}
                                  /\ \A item \in SearchSet : JoinedContains(item))
           /\ LikeExamples

\* a search value found only across two joined entity values
C5_Witness ==
    /\ Applies("like", "and") /\ StringsOnly
    /\ \E item \in SearchSet : ~SomeValueContains(item)
    /\ outcome = "True"

\* C6: without entity values, operator like gives false for every
\* combinator and every list of search values, the empty one included
C6_LikeOnNothingIsFalse ==
    (Evaluated /\ args.operator_ = "like" /\ args.entity_values = List(<<>>))
        => outcome = "False"

C6_Witness ==
    /\ Applies("like", "and")
    /\ args.entity_values = List(<<>>)
    /\ args.search_values = <<>>
    /\ outcome = "False"

DateExample(lo) ==
    Call(Scalar(Date(1990, 1, 1)), "greaterThan", <<Date(2000, 1, 1)>>, lo, TRUE)

\* C7 as stated: beginFrom 1990-01-01 against the search value 2000-01-01
\* with operator greaterThan on a date-comparable criterion gives true
C7_DateExampleTrue ==
    (Evaluated /\ \E lo \in {"or", "and"} : args = DateExample(lo))
        => outcome = "True"

\* C7 amended: that call gives false, 2000-01-01 not being before 1990-01-01
C7_DateExampleFalse ==
    (Evaluated /\ \E lo \in {"or", "and"} : args = DateExample(lo))
        => outcome = "False"

C7_Witness ==
    /\ Evaluated
    /\ args = DateExample("or")
    /\ outcome = "False"

KnownOperators == {"equal", "notEqual", "like"} \cup OrderingOperators

\* C10 as stated: an operator outside the known set raises WrongOperatorError
\* for every combinator, entity value list and date-comparability
C10_UnknownOperatorAlwaysRaises ==
    (Evaluated /\ args.operator_ \notin KnownOperators)
        => outcome = "WrongOperatorError"

\* C10 amended: it raises unless the entity values are empty (or the number
\* 0) on a date-comparable criterion, where the evaluator gives false
C10_UnknownOperator ==
    (Evaluated /\ args.operator_ \notin KnownOperators)
        => outcome =
             IF /\ args.is_comparable
                /\ \/ args.entity_values = List(<<>>)
                   \/ args.entity_values = Scalar(Num(0))
             THEN "False" ELSE "WrongOperatorError"

C10_Witness ==
    /\ Evaluated /\ args.operator_ = "contains"
    /\ args.entity_values = List(<<>>)
    /\ ~args.is_comparable
    /\ outcome = "WrongOperatorError"

\* C15: without an entity value (a date field absent or unparseable) a
\* date-comparable criterion gives false for every known operator and every
\* combinator, and raises nothing
C15_NoDateNeverMatches ==
    (/\ Evaluated
     /\ args.is_comparable
     /\ args.entity_values = List(<<>>)
     /\ args.operator_ \in KnownOperators)
        => outcome = "False"

\* notEqual/or on nothing, which the truth table alone would make true
C15_Witness ==
    /\ Applies("notEqual", "or")
    /\ args.is_comparable
    /\ args.entity_values = List(<<>>)
    /\ args.search_values # <<>>
    /\ outcome = "False"

\* C18: an ordering operator on a criterion that is not date-comparable
\* raises WrongOperatorError for every combinator and every entity value
C18_OrderingNeedsComparable ==
    (/\ Evaluated
     /\ args.operator_ \in OrderingOperators
     /\ ~args.is_comparable)
        => outcome = "WrongOperatorError"

C18_Witness ==
    /\ Applies("lesserThan", "and")
    /\ ~args.is_comparable
    /\ args.entity_values = Scalar(IntV(2))
    /\ args.search_values = <<IntV(1)>>
    /\ outcome = "WrongOperatorError"

\* a date-comparable call with a present scalar value and numbers to compare
ScalarComparison ==
    /\ Evaluated
    /\ args.is_comparable
    /\ args.entity_values.kind = "scalar"
    /\ \A s \in SearchSet : IsNum(s)

EntityNumber == args.entity_values.items[1].n

Holds(op, s, v) ==
    CASE op = "greaterThan"      -> s < v
      [] op = "greaterThanEqual" -> s <= v
      [] op = "lesserThan"       -> s > v
      [] op = "lesserThanEqual"  -> s >= v

\* C19: on a date-comparable criterion with the scalar entity value v,
\* greaterThan is true iff some (or) / every (and) search value s has s < v,
\* greaterThanEqual uses s <= v, lesserThan s > v, lesserThanEqual s >= v
C19_OrderingTruthTable ==
    (ScalarComparison /\ args.operator_ \in OrderingOperators)
        => /\ args.logical_operator = "or"
                => outcome = Bool(\E s \in SearchSet :
                                     Holds(args.operator_, s.n, EntityNumber))
           /\ args.logical_operator = "and"
                => outcome = Bool(\A s \in SearchSet :
                                     Holds(args.operator_, s.n, EntityNumber))

\* C20: with operator equal and combinator and on a criterion that is not
\* date-comparable, the evaluator is true exactly when every search value is
\* among the entity values
C20_EqualAndIsInclusion ==
    (Applies("equal", "and") /\ EntityList /\ ~args.is_comparable)
        => outcome = Bool(SearchSet \subseteq EntitySet)

C20_Witness ==
    /\ Applies("equal", "and") /\ EntityList /\ ~args.is_comparable
    /\ SearchSet \cap EntitySet # {}
    /\ ~(SearchSet \subseteq EntitySet)
    /\ outcome = "False"

\* C24: a combinator other than and / or with a known operator and a
\* non-empty list of entity values raises WrongOperatorError
C24_UnknownCombinatorRaises ==
    (/\ Evaluated
     /\ args.logical_operator \notin {"or", "and"}
     /\ args.operator_ \in KnownOperators
     /\ EntityList
     /\ EntitySet # {})
        => outcome = "WrongOperatorError"

C24_Witness ==
    /\ Applies("equal", "xor")
    /\ args.entity_values = List(<<IntV(1)>>)
    /\ args.search_values = <<IntV(1)>>
    /\ ~args.is_comparable
    /\ outcome = "WrongOperatorError"

\* the outcome of the call at hand under another operator
WithOperator(op) ==
    search_entity(args.entity_values, op, args.search_values,
                  args.logical_operator, args.is_comparable)

\* the outcome of the call at hand under another combinator
WithCombinator(lo) ==
    search_entity(args.entity_values, args.operator_, args.search_values,
                  lo, args.is_comparable)

\* C27: on a list of entity values notEqual is the negation of equal under
\* the same combinator when the criterion is not date-comparable; on a
\* date-comparable criterion with no entity value both give false
C27_NotEqualNegatesEqual ==
    (/\ Evaluated
     /\ args.operator_ = "notEqual"
     /\ args.logical_operator \in {"or", "and"}
     /\ EntityList)
        => /\ ~args.is_comparable
                => /\ outcome \in {"True", "False"}
                   /\ outcome = PyNot(WithOperator("equal"))
           /\ (args.is_comparable /\ EntitySet = {})
                => outcome = "False" /\ WithOperator("equal") = "False"

\* some search values among the entity values, not all: or and and differ
C27_Witness ==
    /\ Applies("notEqual", "or")
    /\ EntityList
    /\ ~args.is_comparable
    /\ SearchSet \cap EntitySet # {}
    /\ ~(SearchSet \subseteq EntitySet)
    /\ outcome = "False"
    /\ WithOperator("equal") = "True"

\* C28: without search values a criterion that is not date-comparable gives
\* true under equal/and and notEqual/or and false under equal/or and
\* notEqual/and, whatever the entity values are
C28_NoSearchValues ==
    (/\ Evaluated
     /\ ~args.is_comparable
     /\ args.search_values = <<>>
     /\ args.operator_ \in {"equal", "notEqual"}
     /\ args.logical_operator \in {"or", "and"})
        => outcome =
             Bool((args.operator_ = "equal") <=> (args.logical_operator = "and"))

C28_Witness ==
    /\ Applies("equal", "and")
    /\ ~args.is_comparable
    /\ args.search_values = <<>>
    /\ args.entity_values = List(<<>>)
    /\ outcome = "True"

\* operator like with one search value, on strings
LikeOneValue ==
    /\ Evaluated
    /\ args.operator_ = "like"
    /\ args.logical_operator \in {"or", "and"}
    /\ Len(args.search_values) = 1
    /\ StringsOnly

HasSpace(item) == \E i \in DOMAIN item.s : item.s[i] = " "

\* C29 as stated: with one search value like gives the same under or and
\* under and, for every list of entity values
C29_LikeOneValueSame ==
    LikeOneValue => WithCombinator("or") = WithCombinator("and")

\* C29 amended: the same for at most one entity value and for a search value
\* without a space; in general true under or implies true under and
C29_LikeOneValue ==
    LikeOneValue
        => /\ WithCombinator("or") = "True" => WithCombinator("and") = "True"
           /\ (Len(args.entity_values.items) <= 1
               \/ ~HasSpace(args.search_values[1]))
                => WithCombinator("or") = WithCombinator("and")
           /\ outcome = WithCombinator(args.logical_operator)

\* "a b" is in no single value of ["a", "b"] but in their join
C29_Witness ==
    /\ LikeOneValue
    /\ args.logical_operator = "and"
    /\ Len(args.entity_values.items) = 2
    /\ outcome = "True"
    /\ WithCombinator("or") = "False"

---------------------------------------------------------------------------
(* Properties of the resolver *)

Resolving == resolved.err \notin {"pending", "idle"}

\* the element holds one criterion, of the given category
SingleCriterion(category) ==
    /\ Len(element) = 1
    /\ element[1].category = category
    /\ Len(element[1].criteria) = 1

RawCriterion == element[1].criteria[1]

RawValueSet == {RawCriterion.values[i] : i \in DOMAIN RawCriterion.values}

ResolvedSet ==
    {resolved.parameter.search_values[i] :
        i \in DOMAIN resolved.parameter.search_values}

ChildrenOf(id) == {g_types[id].subs[i] : i \in DOMAIN g_types[id].subs}

RECURSIVE WithDescendants(_)
\* a set of type ids together with everything below them in the tree
WithDescendants(ids) ==
    LET below == ids \cup UNION {ChildrenOf(id) : id \in ids}
    IN  IF below = ids THEN ids ELSE WithDescendants(below)

\* C8: a typeIDWithSubs criterion resolves, as a set, to the given type ids
\* and all their transitive descendants; [root] resolves to the whole tree
C8_TypeIDWithSubsIsClosure ==
    (/\ Resolving
     /\ SingleCriterion("typeIDWithSubs")
     /\ \A v \in RawValueSet : IdOf(v) \in TypeIds)
        => /\ resolved.err = ""
           /\ ResolvedSet =
                {IntV(id) : id \in WithDescendants({IdOf(v) : v \in RawValueSet})}
           /\ RawCriterion.values = <<IntV(1)>>
                => ResolvedSet = {IntV(1), IntV(2), IntV(3), IntV(4)}

C8_Witness ==
    /\ Resolving
    /\ SingleCriterion("typeIDWithSubs")
    /\ RawCriterion.values = <<IntV(1)>>
    /\ resolved.err = ""
    /\ ResolvedSet = {IntV(1), IntV(2), IntV(3), IntV(4)}

\* links whose description is a number
NumericLinks ==
    {i \in DOMAIN Links :
        /\ Links[i].description # NoDescription
        /\ ParseFloat(Links[i].description).err = ""}

LinkValue(i) == ParseFloat(Links[i].description).val[1].n

\* the link value on the entity side, the given number on the search side
Satisfies(op, value, number) ==
    CASE op = "equal"            -> value = number
      [] op = "notEqual"         -> value # number
      [] op = "greaterThan"      -> value > number
      [] op = "greaterThanEqual" -> value >= number
      [] op = "lesserThan"       -> value < number
      [] op = "lesserThanEqual"  -> value <= number

\* C9: a valueTypeID criterion resolves to exactly the domain ids of the
\* links of the given type whose numeric description satisfies the operator
\* against the given number, and is then compared with operator equal
C9_ValueTypeIDResolution ==
    (/\ Resolving
     /\ SingleCriterion("valueTypeID")
     /\ RawCriterion.operator \in KnownOperators \ {"like"}
     /\ RawCriterion.logicalOperator \in {"or", "and"})
        => /\ resolved.err = ""
           /\ resolved.parameter.operator = "equal"
           /\ ResolvedSet =
                {IntV(Links[i].domain) : i \in
                    {j \in NumericLinks :
                        \E v \in RawValueSet :
                            /\ Links[j].type = v.n
                            /\ Satisfies(RawCriterion.operator,
                                         LinkValue(j), v.m)}}

\* the ids linked to the raw ids of the criterion
LinkedIds ==
    UNION {{IntV(get_linked_entities_id_api(IdOf(v))[k]) :
               k \in DOMAIN get_linked_entities_id_api(IdOf(v))} :
           v \in RawValueSet}

NoDuplicates(list_) ==
    \A i \in DOMAIN list_ : \A j \in DOMAIN list_ : list_[i] = list_[j] => i = j

\* C11: a relationToID criterion resolves to the de-duplicated ids linked to
\* the given ids and is evaluated with operator equal whatever the caller
\* supplied: an entity matches iff its id is among the linked ids
C11_RelationForcedEqual ==
    (Resolving /\ SingleCriterion("relationToID"))
        => /\ resolved.err = ""
           /\ ResolvedSet = LinkedIds
           /\ NoDuplicates(resolved.parameter.search_values)
           /\ resolved.parameter.operator = "equal"
           /\ \A e \in Entities :
                search_result(e, resolved.parameter)
                    = Bool(IntV(e.id) \in LinkedIds)

\* the element at hand with combinator or written out in its one criterion
WithCombinatorOr ==
    Element(element[1].category,
            [RawCriterion EXCEPT !.logicalOperator = "or"])

\* C12: a raw criterion without logicalOperator is resolved as if it carried
\* combinator or, for every category, valueTypeID included; the missing key
\* never causes an error
C12_MissingCombinatorIsOr ==
    (/\ Resolving
     /\ Len(element) = 1
     /\ Len(element[1].criteria) = 1
     /\ RawCriterion.logicalOperator = Missing)
        => /\ resolved = get_search_parameter(WithCombinatorOr)
           /\ resolved.err = "" => resolved.parameter.logical_operator = "or"

\* one category with several raw criteria, resolved without an exception
SameCategoryCriteria ==
    /\ Resolving
    /\ Len(element) = 1
    /\ Len(element[1].criteria) >= 2
    /\ resolved.err = ""

LastCriterion == element[1].criteria[Len(element[1].criteria)]

\* what the j-th criterion of the category resolves to on its own
Alone(j) ==
    get_search_parameter(Element(element[1].category, element[1].criteria[j]))

\* C13: of several raw criteria for one category the last one in input order
\* stays: the resolved search values, operator and combinator are those of
\* the last, and an entity matches through the element only if it satisfies
\* the last
C13_LastCriterionWins ==
    SameCategoryCriteria
        => /\ resolved = Alone(Len(element[1].criteria))
           /\ resolved.parameter.search_values = lowered(LastCriterion.values)
           /\ resolved.parameter.operator = LastCriterion.operator
           /\ resolved.parameter.logical_operator =
                IF LastCriterion.logicalOperator = Missing THEN "or"
                ELSE LastCriterion.logicalOperator
           /\ \A e \in Entities :
                search_result(e, resolved.parameter)
                    = search_result(e, Alone(Len(element[1].criteria)).parameter)

\* the entity Apse satisfies the first criterion only and is not matched
C13_Witness ==
    /\ SameCategoryCriteria
    /\ element[1].criteria[1] # LastCriterion
    /\ search_result(EntityA, Alone(1).parameter) = "True"
    /\ search_result(EntityA, resolved.parameter) = "False"

\* a resolved single criterion on a category no entity has a value for, or
\* on the description
OnMissingAttribute ==
    /\ Resolving
    /\ resolved.err = ""
    /\ Len(element) = 1
    /\ Len(element[1].criteria) = 1
    /\ element[1].category \in {"colour", "entityDescription"}

HasNoValue(e) ==
    element[1].category = "colour" \/ e.description = NoDescription

\* C14: extraction gives the empty list for a category outside the
\* enumeration and for entityDescription on an entity without description;
\* such a criterion with operator equal and search values, or with operator
\* like, matches no entity
C14_NothingExtractedNothingMatched ==
    OnMissingAttribute
        => \A e \in Entities :
              HasNoValue(e)
                 => /\ value_to_be_searched(e, element[1].category) = List(<<>>)
                    /\ (/\ resolved.parameter.operator = "equal"
                        /\ resolved.parameter.search_values # <<>>)
                          => search_result(e, resolved.parameter) = "False"
                    /\ resolved.parameter.operator = "like"
                          => search_result(e, resolved.parameter) = "False"

\* equal on the description of Apse, which has none, and on an unknown category
C14_Witness ==
    /\ OnMissingAttribute
    /\ element[1].category = "entityDescription"
    /\ resolved.parameter.operator = "equal"
    /\ resolved.parameter.logical_operator = "and"
    /\ resolved.parameter.search_values = <<IntV(7)>>
    /\ search_result(EntityA, resolved.parameter) = "False"
    /\ search_result(EntityA,
           [resolved.parameter EXCEPT !.category = "colour"]) = "False"

\* C16: the resolved search values of a set-expanding category hold no
\* element twice
C16_ExpandedValuesDistinct ==
    (/\ Resolving
     /\ resolved.err = ""
     /\ Len(element) = 1
     /\ Len(element[1].criteria) = 1
     /\ element[1].category \in {"typeIDWithSubs", "relationToID", "valueTypeID"})
        => NoDuplicates(resolved.parameter.search_values)

\* C17: valueTypeID resolution compares only links whose description is a
\* number; a link without description or with one that is no number is
\* skipped, gives no id and does not make resolution fail
C17_NonNumericLinksSkipped ==
    (/\ Resolving
     /\ SingleCriterion("valueTypeID")
     /\ RawCriterion.operator \in KnownOperators \ {"like"}
     /\ RawCriterion.logicalOperator \in {"or", "and"})
        => /\ resolved.err = ""
           /\ ResolvedSet \subseteq
                {IntV(Links[i].domain) : i \in
                    {j \in NumericLinks :
                        \E v \in RawValueSet : Links[j].type = v.n}}

\* links whose description is the number 0
ZeroLinks == {i \in NumericLinks : LinkValue(i) = 0}

\* C25: in valueTypeID resolution with an ordering operator a link whose
\* description is 0 is compared like any other number: its domain id is
\* collected exactly when 0 satisfies the operator against a given bound
C25_ZeroIsCompared ==
    (/\ Resolving
     /\ SingleCriterion("valueTypeID")
     /\ RawCriterion.operator \in OrderingOperators
     /\ RawCriterion.logicalOperator \in {"or", "and"}
     /\ resolved.err = "")
        => \A i \in ZeroLinks :
              (\E v \in RawValueSet :
                  /\ Links[i].type = v.n
                  /\ Satisfies(RawCriterion.operator, 0, v.m))
                 => IntV(Links[i].domain) \in ResolvedSet

\* an element with several categories
SeveralCategories == Resolving /\ Len(element) >= 2

\* the (category, criterion) pairs of the element in iteration order
Pairs == ItemsOf(element)

\* what the k-th pair resolves to on its own
PairAlone(k) == get_search_parameter(Element(Pairs[k].category, Pairs[k].i))

FailingPairs == {k \in DOMAIN Pairs : PairAlone(k).err # ""}

\* C30: an element with several categories yields one resolved criterion,
\* that of its last (category, criterion) pair, which alone decides matching;
\* every earlier pair is resolved too, and the first exception among them
\* ends the resolution
C30_LastPairWins ==
    SeveralCategories
        => /\ FailingPairs # {}
                => \E k \in FailingPairs :
                      /\ \A j \in FailingPairs : k <= j
                      /\ resolved.err = PairAlone(k).err
           /\ FailingPairs = {}
                => /\ resolved = PairAlone(Len(Pairs))
                   /\ resolved.parameter.category = element[Len(element)].category
                   /\ \A e \in Entities :
                        search_result(e, resolved.parameter)
                            = search_result(e, PairAlone(Len(Pairs)).parameter)

\* the entity Apse satisfies the first category's criterion only
C30_Witness ==
    /\ SeveralCategories
    /\ FailingPairs = {}
    /\ Pairs[1].category = "entityID"
    /\ search_result(EntityA, PairAlone(1).parameter) = "True"
    /\ resolved.parameter.category = "entityName"
    /\ search_result(EntityA, resolved.parameter) = "False"

---------------------------------------------------------------------------
(* Properties of the search call *)

Matches(entity) ==
    \E k \in DOMAIN resolving : search_result(entity, resolving[k]) = "True"

\* C1: search returns exactly the input entities that at least one resolved
\* criterion matches, whatever the criteria's own logical operators are
C1_ReturnsEntitiesMatchingAny ==
    pc = "returned" => result = SelectSeq(entities, Matches)

\* two criteria, one of them with combinator and; an entity kept for matching
\* only one of them and an entity left out for matching none
C1_Witness ==
    /\ pc = "returned"
    /\ Len(resolving) = 2
    /\ \E k \in DOMAIN resolving : resolving[k].logical_operator = "and"
    /\ \E i \in DOMAIN entities :
          /\ search_result(entities[i], resolving[1])
                # search_result(entities[i], resolving[2])
          /\ \E j \in DOMAIN result : result[j] = entities[i]
    /\ \E i \in DOMAIN entities : ~Matches(entities[i])

IsSubsequence(sub, full) ==
    \E at \in [1..Len(sub) -> 1..Len(full)] :
        /\ \A i \in 1..Len(sub) : sub[i] = full[at[i]]
        /\ \A i \in 1..Len(sub) : \A j \in 1..Len(sub) : i < j => at[i] < at[j]

\* C2: the entities kept are a subsequence of the input list (original order,
\* every input occurrence at most once, nothing added); with one criterion
\* matching only A and one matching only B, [A, B, C] gives [A, B]
C2_ResultIsSubsequence ==
    /\ pc \in {"running", "returned"}
          => IsSubsequence(result, SubSeq(entities, 1, checked))
    /\ (/\ pc = "returned"
        /\ criteria = <<NameIsApse, IdIs8>>
        /\ entities = <<EntityA, EntityB, EntityC>>)
          => result = <<EntityA, EntityB>>

C2_Witness ==
    /\ pc = "returned"
    /\ criteria = <<NameIsApse, IdIs8>>
    /\ entities = <<EntityA, EntityB, EntityC>>
    /\ result = <<EntityA, EntityB>>

\* what the k-th element of the criteria list resolves to
ResolutionOf(k) == get_search_parameter(criteria[k])

FailingElements == {k \in DOMAIN criteria : ResolutionOf(k).err # ""}

\* the (entity, criterion) pairs whose evaluation raises
RaisingPairs ==
    {ik \in (DOMAIN entities) \X (DOMAIN criteria) :
        IsError(search_result(entities[ik[1]], ResolutionOf(ik[2]).parameter))}

MatchesSome(entity) ==
    \E k \in DOMAIN criteria :
        search_result(entity, ResolutionOf(k).parameter) = "True"

\* C26: every resolved criterion is evaluated for every entity: if any
\* (entity, criterion) pair raises WrongOperatorError the call raises it and
\* returns nothing, also when an earlier criterion matched the entity; the
\* outcome depends on the criteria as a set, not on their order
C26_EveryPairEvaluated ==
    (pc # "running" /\ FailingElements = {})
        => /\ RaisingPairs # {}
                => /\ pc = "raised"
                   /\ raised = "WrongOperatorError"
                   /\ result = <<>>
           /\ RaisingPairs = {}
                => /\ pc = "returned"
                   /\ result = SelectSeq(entities, MatchesSome)

\* the name of Apse matches the first criterion, the second one raises
C26_Witness ==
    /\ pc = "raised"
    /\ raised = "WrongOperatorError"
    /\ criteria = <<NameIsApse, NameContains>>
    /\ entities = <<EntityA>>
    /\ search_result(EntityA, ResolutionOf(1).parameter) = "True"
    /\ result = <<>>

\* resolutions are done one per element, in order, and none is missing once
\* an entity has been evaluated; a failing resolution ends the call whatever
\* the entity list is
ResolvedUpFront ==
    /\ Len(resolving) <= Len(criteria)
    /\ \A k \in DOMAIN resolving : resolving[k] = ResolutionOf(k).parameter
    /\ checked > 0 => Len(resolving) = Len(criteria)
    /\ (pc # "running" /\ FailingElements # {})
          => /\ pc = "raised"
             /\ checked = 0
             /\ \E k \in FailingElements : raised = ResolutionOf(k).err

\* a step resolves one more element before any entity is evaluated, or
\* evaluates an entity with the resolved criteria left alone
ResolveThenFilter ==
    /\ resolving' # resolving
          => /\ checked = 0 /\ checked' = 0
             /\ Len(resolving') = Len(resolving) + 1
             /\ SubSeq(resolving', 1, Len(resolving)) = resolving
    /\ checked' # checked
          => /\ resolving' = resolving
             /\ Len(resolving) = Len(criteria)

\* C21: every raw criterion is resolved exactly once per call and all
\* resolutions are complete before the first entity is evaluated, so their
\* number does not depend on the entities; a resolution failure is raised
\* even when the entity list is empty
C21_ResolvedOnceUpFront == [](ResolvedUpFront) /\ [][ResolveThenFilter]_vars

\* two criteria resolved, two of three entities evaluated
C21_Witness ==
    /\ pc = "running"
    /\ Len(criteria) = 2
    /\ Len(resolving) = 2
    /\ Len(entities) = 3
    /\ checked = 2

\* C22: for finite entity and criteria lists over the acyclic type tree a
\* search call terminates: it returns the filtered list or raises an error
C22_Terminates ==
    <>(\/ pc = "returned"
       \/ pc = "raised" /\ raised # "")

\* a call over the longest lists that expands the type tree and returns
C22_Witness ==
    /\ pc = "returned"
    /\ Len(entities) = MaxEntities
    /\ Len(criteria) = MaxCriteria
    /\ criteria[1] = TypeUnderRoot
    /\ result # <<>>

---------------------------------------------------------------------------
(* Properties of the type expansion *)

Expanded == expanded.err \notin {"pending", "idle"}

ChildSet(id) == {expanding.types[id][i] : i \in DOMAIN expanding.types[id]}

RECURSIVE Below(_)
\* the ids reachable from a set of ids through child links, in one step or more
Below(ids) ==
    LET next == ids \cup UNION {ChildSet(id) : id \in ids}
    IN  IF next = ids THEN ids ELSE Below(next)

Descendants(id) == Below(ChildSet(id))

\* a type below the given one is reachable from itself
CycleBelow(id) ==
    \E c \in {id} \cup Descendants(id) : c \in Descendants(c)

\* C23: the expansion of a type ends with its descendants also when the
\* hierarchy holds a cycle, an id once visited not being expanded again
C23_ExpansionSurvivesCycle ==
    (Expanded /\ CycleBelow(expanding.id_))
        => /\ expanded.err = ""
           /\ {expanded.val[i] : i \in DOMAIN expanded.val}
                = Descendants(expanding.id_)

====
